---- MODULE Spec2Model ----
(***************************************************************************)
(* local-state-sync: encrypted state persisted in localStorage and synced  *)
(* between browser tabs through the 'storage' event (src/src/index.ts).    *)
(*                                                                         *)
(* A context is one tab/window (or a Node.js process).  All contexts with  *)
(* a window share one localStorage.  Each LocalStateSync instance lives in *)
(* one context.  Every `await` of the code is a suspension point: the part *)
(* before it and the part after it are separate steps.                     *)
(***************************************************************************)
EXTENDS Integers, Sequences, FiniteSets, TLC

\* ---------------------------------------------------------------- bounds
MaxInst == 2        \* instances constructed in one run
MaxCalls == 2       \* setState/clearState calls and writes of other scripts in one run
MaxTime == 2        \* the clock (Date.now()) runs from 0 to MaxTime
MaxLen == 3         \* length of the byte strings given to the codec

\* ------------------------------------------------------- program constants
KeyBytes == 32      \* required byteLength of the decoded encryptionKey
DefaultTTL == 0     \* config.defaultTTL ?? 0
DefaultNamespace == "default"   \* config.namespace ?? 'default'

\* ------------------------------------------------------------ input sets
Instances == 1..MaxInst
Contexts == {"tabA", "tabB", "oldTab", "node"}

\* typeof window, 'crypto' in window
HasWindow(c) == c # "node"
HasCrypto(c) == c \in {"tabA", "tabB"}

\* encryptionKey inputs: the secret they encode and its decoded byteLength
\* (a key text spelled with whitespace decodes to the same bytes)
EncryptionKeys == {[secret |-> "k1", len |-> KeyBytes], [secret |-> "k1", len |-> KeyBytes - 1]}
\* ttl values passed to setState: negative, zero, positive
TTLs == {-1, 0, 1}
\* namespace and defaultTTL given to the constructor
Configs == {[namespace |-> DefaultNamespace, defaultTTL |-> DefaultTTL],
            [namespace |-> DefaultNamespace, defaultTTL |-> 1],
            [namespace |-> "other", defaultTTL |-> DefaultTTL]}
Undefined == "undefined"
States == {"a", "b", Undefined}
\* options argument of setState: absent, {} (no ttl), or {ttl: n}
NoOptions == [given |-> "nothing"]
NoTTL == [given |-> "object"]
WithTTL(n) == [given |-> "ttl", ttl |-> n]
SetStateOptions == {NoOptions, NoTTL} \cup {WithTTL(n) : n \in TTLs}

\* -------------------------------------------------------------- variables
VARIABLES
  now,            \* Date.now()
  config,         \* this.config of each instance, with its context
  internalState,  \* this.#internalState
  setupPc,        \* position of the async setup() of each instance
  listeners,      \* instances whose handleStorageEvent is registered
  encrypting,     \* per instance: setState calls awaiting crypto.subtle.encrypt
  decrypting,     \* per instance: decryptState calls awaiting crypto.subtle.decrypt
  handled,        \* per instance: how each read (initial load, event) ended, in order
  localStorage,   \* window.localStorage of the origin
  events,         \* per context: queued 'storage' events
  outcome,        \* what the last setState/clearState call did
  ivs,            \* IVs drawn so far; ivs[n] tells which setState call drew IV n
  loads,          \* per instance: what each run of loadFromLocalStorage found
  calls,          \* setState/clearState calls and writes of other scripts made so far
  planted,        \* values an on-origin attacker stored: tampered or copied records
  codec           \* a run of the codec on its own: input, encoded text, decoded bytes

vars == <<now, config, internalState, setupPc, listeners, encrypting, decrypting,
          handled, localStorage, events, outcome, ivs, loads, calls, planted, codec>>

\* ---------------------------------------------------------------- codec
\* A byte string is a sequence of numbers 0..255, a text a sequence of
\* one-character strings.
Alphabet ==
  <<"A", "B", "C", "D", "E", "F", "G", "H", "I", "J", "K", "L", "M", "N", "O", "P",
    "Q", "R", "S", "T", "U", "V", "W", "X", "Y", "Z", "a", "b", "c", "d", "e", "f",
    "g", "h", "i", "j", "k", "l", "m", "n", "o", "p", "q", "r", "s", "t", "u", "v",
    "w", "x", "y", "z", "0", "1", "2", "3", "4", "5", "6", "7", "8", "9", "+", "/">>
Pad == "="
AlphabetChars == {Alphabet[n] : n \in 1..Len(Alphabet)}
IsBase64Char(ch) == ch \in AlphabetChars
\* the six bits of a character: its place in the alphabet
SextetOf == [ch \in AlphabetChars |-> (CHOOSE n \in 1..Len(Alphabet) : Alphabet[n] = ch) - 1]
Sextet(ch) == SextetOf[ch]
Char(sextet) == Alphabet[sextet + 1]

\* window.btoa(String.fromCharCode(...input)): three bytes make four
\* characters, and a last group of one or two bytes is padded with '='
RECURSIVE btoa(_)
btoa(bytes) ==
  IF Len(bytes) = 0 THEN <<>>
  ELSE IF Len(bytes) = 1 THEN
    LET n == bytes[1] * 65536
    IN  <<Char(n \div 262144), Char((n \div 4096) % 64), Pad, Pad>>
  ELSE IF Len(bytes) = 2 THEN
    LET n == bytes[1] * 65536 + bytes[2] * 256
    IN  <<Char(n \div 262144), Char((n \div 4096) % 64), Char((n \div 64) % 64), Pad>>
  ELSE
    LET n == bytes[1] * 65536 + bytes[2] * 256 + bytes[3]
    IN  <<Char(n \div 262144), Char((n \div 4096) % 64), Char((n \div 64) % 64),
          Char(n % 64)>> \o btoa(SubSeq(bytes, 4, Len(bytes)))

\* what atob throws on a text that is no base64
InvalidCharacterError == <<-1>>

\* the bytes of a text of base64 characters without padding; the bits left
\* over by a last group of two or three characters are dropped
RECURSIVE DecodeGroups(_)
DecodeGroups(text) ==
  IF Len(text) = 0 THEN <<>>
  ELSE IF Len(text) = 2 THEN
    LET n == Sextet(text[1]) * 262144 + Sextet(text[2]) * 4096
    IN  <<n \div 65536>>
  ELSE IF Len(text) = 3 THEN
    LET n == Sextet(text[1]) * 262144 + Sextet(text[2]) * 4096 + Sextet(text[3]) * 64
    IN  <<n \div 65536, (n \div 256) % 256>>
  ELSE
    LET n == Sextet(text[1]) * 262144 + Sextet(text[2]) * 4096 + Sextet(text[3]) * 64
               + Sextet(text[4])
    IN  <<n \div 65536, (n \div 256) % 256, n % 256>>
          \o DecodeGroups(SubSeq(text, 5, Len(text)))

\* text.replace(/={1,2}$/, '')
StripPadding(text) ==
  LET n == Len(text)
  IN  IF n >= 2 /\ text[n] = Pad /\ text[n - 1] = Pad THEN SubSeq(text, 1, n - 2)
      ELSE IF n >= 1 /\ text[n] = Pad THEN SubSeq(text, 1, n - 1)
      ELSE text

\* space, tab, line feed, form feed, carriage return
AsciiWhitespace == {" ", "\t", "\n", "\f", "\r"}
IsNoWhitespace(ch) == ch \notin AsciiWhitespace

\* window.atob(text): ASCII whitespace is removed first; then padding is
\* dropped from a text whose length is a multiple of four; a length of 1
\* modulo 4 and any character outside the alphabet throw
atob(text) ==
  LET stripped == SelectSeq(text, IsNoWhitespace)
      data == IF Len(stripped) % 4 = 0 THEN StripPadding(stripped) ELSE stripped
  IN  IF Len(data) % 4 = 1 \/ \E k \in 1..Len(data) : ~IsBase64Char(data[k])
        THEN InvalidCharacterError
        ELSE DecodeGroups(data)

\* text.replace(/from/g, to)
ReplaceAll(text, from, to) ==
  [k \in 1..Len(text) |-> IF text[k] = from THEN to ELSE text[k]]

\* base64UrlEncode whose replace of '+' lacks the g flag
base64UrlEncode_FirstPlusOnly(input) ==
  LET text == btoa(input)
      plus == {k \in 1..Len(text) : text[k] = "+"}
      first == [k \in 1..Len(text) |->
                  IF k \in plus /\ (\A m \in plus : k <= m) THEN "-" ELSE text[k]]
  IN  StripPadding(ReplaceAll(first, "/", "_"))

base64UrlEncode(input) ==
  StripPadding(ReplaceAll(ReplaceAll(btoa(input), "+", "-"), "/", "_"))

\* the binary string of atob, character by character, as char codes
base64UrlDecode(input) ==
  CHOOSE bytes \in {atob(base64) :
                     base64 \in {ReplaceAll(ReplaceAll(input, "-", "+"), "_", "/")}} : TRUE

\* In the stored record the IV field and the ciphertext field are kept as the
\* values they encode; the expiration field is kept as its base64url text.
\* Whitespace in the text of a field is dropped by atob: a field that is
\* spelled with it decodes to the same value.
EncodedField(value) == <<"b64url", value>>
DecodedField(text) == text[2]
Respelled(text) == Append(text, " ")
\* the text of a field between two dots with nothing in between
EmptyText == <<>>

NoCodec == [phase |-> "none"]

\* ------------------------------------------------------- key derivation
concat(a, b) == <<a, b>>
hash(input) == <<"sha512-256", input>>
encoderEncode(text) == <<"utf8", text>>

\* DeriveKeyBuffer that leaves the namespace out of the hash
DeriveKeyBuffer_IgnoresNamespace(key, namespace) ==
  hash(concat(key.secret, encoderEncode(DefaultNamespace)))

DeriveKeyBuffer(key, namespace) == hash(concat(key.secret, encoderEncode(namespace)))
DeriveStorageKey(keyBuffer) == EncodedField(hash(keyBuffer))

Idle == [state |-> "idle"]
Loaded(keyBuffer) ==
  [state |-> "loaded", storageKey |-> DeriveStorageKey(keyBuffer), encryptionKey |-> keyBuffer]

\* ---------------------------------------------------------------- AEAD
\* AES-GCM as an ideal AEAD: the ciphertext (with its tag) opens only under
\* the key, IV and additional data it was made with.
\* additionalData: undefined: AES-GCM authenticates zero bytes of additional
\* data then, as it does for an empty array
NoAD == <<>>
AesGcmEncrypt(key, iv, ad, cleartext) ==
  [key |-> key, iv |-> iv, ad |-> ad, cleartext |-> cleartext]
AesGcmOpens(key, iv, ad, ciphertext) ==
  /\ ciphertext.key = key
  /\ ciphertext.iv = iv
  /\ ciphertext.ad = ad

\* stateSerializer = JSON.stringify followed by TextEncoder.encode:
\* JSON.stringify(undefined) is undefined, which encodes to zero bytes
stateSerializer(state) == IF state = Undefined THEN <<>> ELSE <<"json", state>>
\* stateParser = JSON.parse of the decoded cleartext; throws on the empty text
ParserThrows(cleartext) == Len(cleartext) = 0
stateParser(cleartext) == cleartext[2]

\* EffectiveTTL with || in place of ??: a ttl of 0 falls back to the default
EffectiveTTL_ZeroFallsBack(options, defaultTTL) ==
  IF options.given = "ttl" /\ options.ttl # 0 THEN options.ttl ELSE defaultTTL

\* options.ttl ?? this.config.defaultTTL, with the default argument of setState
EffectiveTTL(options, defaultTTL) ==
  IF options.given = "ttl" THEN options.ttl ELSE defaultTTL

\* encoder.encode(n.toFixed()) for an integer n >= 0 below 10^21: the char
\* codes of its decimal digits
RECURSIVE toFixed(_)
toFixed(n) ==
  IF n < 10 THEN <<48 + n>> ELSE Append(toFixed(n \div 10), 48 + (n % 10))

\* parseInt(decoder.decode(bytes)) for ASCII bytes: leading whitespace is
\* skipped, a sign is read, a 0x prefix selects radix 16, the digits up to
\* the first other character are read; NaN when there is no digit
NaN == <<>>
WhitespaceCodes == {9, 10, 11, 12, 13, 32}
DigitValue(b) ==
  IF b \in 48..57 THEN b - 48
  ELSE IF b \in 65..90 THEN b - 55
  ELSE IF b \in 97..122 THEN b - 87
  ELSE 36
RECURSIVE SkipWhitespace(_)
SkipWhitespace(bytes) ==
  IF bytes # <<>> /\ Head(bytes) \in WhitespaceCodes
    THEN SkipWhitespace(Tail(bytes)) ELSE bytes
RECURSIVE ReadDigits(_, _, _)
ReadDigits(bytes, radix, acc) ==
  IF bytes # <<>> /\ DigitValue(Head(bytes)) < radix
    THEN ReadDigits(Tail(bytes), radix, radix * acc + DigitValue(Head(bytes)))
    ELSE acc
parseInt(bytes) ==
  LET text == SkipWhitespace(bytes)
      signed == text # <<>> /\ Head(text) \in {43, 45}
      negative == signed /\ Head(text) = 45
      unsigned == IF signed THEN Tail(text) ELSE text
      hex == Len(unsigned) >= 2 /\ unsigned[1] = 48 /\ unsigned[2] \in {88, 120}
      radix == IF hex THEN 16 ELSE 10
      digits == IF hex THEN Tail(Tail(unsigned)) ELSE unsigned
      n == ReadDigits(digits, radix, 0)
  IN  IF digits = <<>> \/ DigitValue(Head(digits)) >= radix THEN NaN
      ELSE <<IF negative THEN -n ELSE n>>

\* encryptState that tests ttl === 0 in place of ttl <= 0
encryptState_ZeroOnly(key, state, ttl, iv, time) ==
  LET expirationTime == IF ttl = 0 THEN NoAD ELSE toFixed(time + ttl)
      ciphertext == AesGcmEncrypt(key, iv, expirationTime, stateSerializer(state))
  IN  IF expirationTime = NoAD
        THEN <<EncodedField(iv), EncodedField(ciphertext)>>
        ELSE <<EncodedField(iv), EncodedField(ciphertext),
               base64UrlEncode(expirationTime)>>

\* the stored record: base64url fields joined by '.', here the list of fields
encryptState(key, state, ttl, iv, time) ==
  LET expirationTime == IF ttl <= 0 THEN NoAD ELSE toFixed(time + ttl)
      ciphertext == AesGcmEncrypt(key, iv, expirationTime, stateSerializer(state))
  IN  IF expirationTime = NoAD
        THEN <<EncodedField(iv), EncodedField(ciphertext)>>
        ELSE <<EncodedField(iv), EncodedField(ciphertext),
               base64UrlEncode(expirationTime)>>

\* decryptState up to its result: what the decoding of the fields, the awaited
\* decryption, the expiration check and the parser make of a stored value,
\* read at `time`
WellFormed(value) == Len(value) >= 2
\* expirationTimeB64 ? ... : undefined: a third field that is the empty text
\* counts as no third field
HasExpiration(value) == Len(value) >= 3 /\ value[3] # EmptyText
\* the additional data handed to the cipher
ExpirationBytes(value) ==
  IF HasExpiration(value) THEN base64UrlDecode(value[3]) ELSE NoAD
Decodable(value) == WellFormed(value) /\ ExpirationBytes(value) # InvalidCharacterError
\* the expiration time read from the record: <<n>>, or NaN
ExpirationOf(value) ==
  CHOOSE time \in {parseInt(bytes) : bytes \in {ExpirationBytes(value)}} : TRUE
\* Authentic for a cipher call that is not given the expiration as additional data
Authentic_ExpirationUnbound(key, value) ==
  /\ WellFormed(value)
  /\ AesGcmOpens(key, DecodedField(value[1]), DecodedField(value[2]).ad,
                 DecodedField(value[2]))

\* no ciphertext was made with what a failed decoding leaves
Authentic(key, value) ==
  /\ WellFormed(value)
  /\ AesGcmOpens(key, DecodedField(value[1]), ExpirationBytes(value),
                 DecodedField(value[2]))
CleartextOf(value) == DecodedField(value[2]).cleartext
\* expirationTime && parseInt(...) < Date.now(): a comparison with NaN is false
Expired(value, time) ==
  LET expirationTime == ExpirationOf(value)
  IN  HasExpiration(value) /\ expirationTime # NaN /\ expirationTime[1] < time
\* decryptState without the expiration check
decryptState_NoExpiry(key, value, time) ==
  IF ~Decodable(value) THEN [kind |-> "decode-error"]
  ELSE IF ~Authentic(key, value) THEN [kind |-> "auth-error"]
  ELSE IF ParserThrows(CleartextOf(value)) THEN [kind |-> "parse-error"]
  ELSE [kind |-> "state", state |-> stateParser(CleartextOf(value))]

decryptState(key, value, time) ==
  IF ~Decodable(value) THEN [kind |-> "decode-error"]
  ELSE IF ~Authentic(key, value) THEN [kind |-> "auth-error"]
  ELSE IF Expired(value, time) THEN [kind |-> "expired"]
  ELSE IF ParserThrows(CleartextOf(value)) THEN [kind |-> "parse-error"]
  ELSE [kind |-> "state", state |-> stateParser(CleartextOf(value))]

\* ------------------------------------------------------ storage substrate
NoValue == <<>>
ForeignSecret == [secret |-> "k2", len |-> KeyBytes]
OwnStorageKeys ==
  {DeriveStorageKey(DeriveKeyBuffer(k, cfg.namespace)) : k \in EncryptionKeys, cfg \in Configs}
StorageKeys == OwnStorageKeys

\* values another script of the origin may store: text that is no record, and
\* a record made under another key
Garbage == <<EncodedField(0)>>
ForeignRecord == encryptState(DeriveKeyBuffer(ForeignSecret, DefaultNamespace), "a", 0, 0, 0)
ForeignValues == {Garbage, ForeignRecord}
ForeignKeys == {DeriveStorageKey(DeriveKeyBuffer([secret |-> "k1"], DefaultNamespace))}

NoConfig == [ctx |-> "none"]
Constructed(i) == config[i].ctx # "none"
CtxOf(i) == config[i].ctx
IsLoaded(i) == internalState[i].state = "loaded"
SetupRunning(i) == setupPc[i] = "awaiting"
\* setup() has returned and the callback of its promise, the initial load, is
\* the next job of the instance
LoadQueued(i) == setupPc[i] = "resolved"
\* Between the return of setup() and the initial load the context runs
\* microtasks only: code of the caller may run there, while the tasks of the
\* event loop (a 'storage' event, the completion of a digest, of an
\* encryption or of a decryption) wait until the microtask queue is empty.
Settling(c) == \E i \in Instances : Constructed(i) /\ CtxOf(i) = c /\ LoadQueued(i)

\* a context whose window has, or may still get, a 'storage' listener
Listening(c) ==
  \E i \in Instances : Constructed(i) /\ CtxOf(i) = c /\ (SetupRunning(i) \/ i \in listeners)

\* the 'storage' event of a change made in context `origin` (or by another
\* script when origin is "foreign"): queued in every other listening window
StorageEvents(origin, key, old, new) ==
  [c \in Contexts |->
     IF c # origin /\ HasWindow(c) /\ Listening(c) /\ old # new
       THEN Append(events[c], [key |-> key, newValue |-> new])
       ELSE events[c]]

\* the calls of config.onStateUpdated made by instance i, in order
IsDelivery(h) == h.result = "state"
Delivered(i) == SelectSeq(handled[i], IsDelivery)

RemoveAt(seq, k) == SubSeq(seq, 1, k - 1) \o SubSeq(seq, k + 1, Len(seq))

\* ------------------------------------------------------------------ Init
\* before any instance is constructed
NoInstances ==
  /\ now = 0
  /\ config = [i \in Instances |-> NoConfig]
  /\ internalState = [i \in Instances |-> Idle]
  /\ setupPc = [i \in Instances |-> "none"]
  /\ listeners = {}
  /\ encrypting = [i \in Instances |-> <<>>]
  /\ decrypting = [i \in Instances |-> <<>>]
  /\ handled = [i \in Instances |-> <<>>]
  /\ localStorage = [k \in StorageKeys |-> NoValue]
  /\ events = [c \in Contexts |-> <<>>]
  /\ outcome = [inst |-> 0, op |-> "none", result |-> "none"]
  /\ ivs = <<>>
  /\ loads = [i \in Instances |-> <<>>]
  /\ calls = 0
  /\ planted = {}

Init == NoInstances /\ codec = NoCodec

\* --------------------------------------------------------------- actions
\* New without the byteLength check of setup
New_NoLengthCheck(i, c, key, cfg) ==
  /\ ~Constructed(i)
  /\ \A j \in Instances : j < i => Constructed(j)
  /\ c = "tabB" => \E j \in Instances : Constructed(j) /\ CtxOf(j) = "tabA"
  /\ config' = [config EXCEPT ![i] =
       [ctx |-> c, key |-> key, namespace |-> cfg.namespace,
        defaultTTL |-> cfg.defaultTTL]]
  /\ setupPc' = [setupPc EXCEPT ![i] =
       IF ~HasWindow(c) \/ ~HasCrypto(c) THEN "returned" ELSE "awaiting"]
  /\ UNCHANGED <<planted, codec, now, internalState, listeners, encrypting, decrypting, handled,
                 localStorage, events, outcome, ivs, loads, calls>>

\* new LocalStateSync({encryptionKey, namespace, defaultTTL, ...}) in context c:
\* the constructor and setup() up to its first await.  Instances are numbered
\* in the order of construction, and of the two interchangeable tabs tabA is
\* the one used first.
New(i, c, key, cfg) ==
  /\ ~Constructed(i)
  /\ c = "tabB" => \E j \in Instances : Constructed(j) /\ CtxOf(j) = "tabA"
  /\ \A j \in Instances : j < i => Constructed(j)
  /\ config' = [config EXCEPT ![i] =
       [ctx |-> c, key |-> key, namespace |-> cfg.namespace,
        defaultTTL |-> cfg.defaultTTL]]
  /\ setupPc' = [setupPc EXCEPT ![i] =
       IF ~HasWindow(c) \/ ~HasCrypto(c) THEN "returned"
       ELSE IF key.len # KeyBytes THEN "threw"
       ELSE "awaiting"]
  /\ UNCHANGED <<planted, codec, now, internalState, listeners, encrypting, decrypting, handled,
                 localStorage, events, outcome, ivs, loads, calls>>

\* loadFromLocalStorage that reads the storage twice
loadFromLocalStorage_Twice(i, state) ==
  LET value == localStorage[state.storageKey]
      found == IF value = NoValue THEN "none"
               ELSE decryptState(state.encryptionKey, value, now).kind
      task == [value |-> value, via |-> "load"]
  IN  /\ loads' = [loads EXCEPT ![i] = @ \o <<found, found>>]
      /\ decrypting' = [decrypting EXCEPT ![i] =
           IF value = NoValue THEN @ ELSE @ \o <<task, task>>]

\* loadFromLocalStorage up to its await; loads notes what the record found
\* was worth at that moment
loadFromLocalStorage(i, state) ==
  LET value == localStorage[state.storageKey]
  IN  /\ loads' = [loads EXCEPT ![i] = Append(@,
           IF value = NoValue THEN "none"
           ELSE decryptState(state.encryptionKey, value, now).kind)]
      /\ decrypting' = [decrypting EXCEPT ![i] =
           IF value = NoValue THEN @ ELSE Append(@, [value |-> value, via |-> "load"])]

\* setup() after its awaits (hash, importKey, hash: they touch nothing but
\* locals of setup) up to its return: the instance is loaded and listens
SetupStep(i) ==
  /\ SetupRunning(i)
  /\ ~Settling(CtxOf(i))
  /\ LET state == Loaded(DeriveKeyBuffer(config[i].key, config[i].namespace))
     IN  /\ setupPc' = [setupPc EXCEPT ![i] = "resolved"]
         /\ internalState' = [internalState EXCEPT ![i] = state]
         /\ listeners' = listeners \cup {i}
  /\ UNCHANGED <<planted, codec, now, config, encrypting, decrypting, handled, localStorage,
                 events, outcome, ivs, loads, calls>>

\* the callback of setup(...).then: loadFromLocalStorage, which returns at
\* once when the instance is not loaded.  After a setup() that returned
\* early (no window, no WebCrypto) the callback runs as well and returns at
\* that test; it is part of New there.
InitialLoad(i) ==
  /\ LoadQueued(i)
  /\ setupPc' = [setupPc EXCEPT ![i] = "loaded"]
  /\ IF IsLoaded(i)
       THEN loadFromLocalStorage(i, internalState[i])
       ELSE UNCHANGED <<loads, decrypting>>
  /\ UNCHANGED <<planted, codec, now, config, internalState, listeners, encrypting, handled,
                 localStorage, events, outcome, ivs, calls>>

\* SetState that returns silently while the instance is not loaded
SetState_SilentWhenIdle(i, state, options) ==
  /\ Constructed(i)
  /\ calls < MaxCalls
  /\ calls' = calls + 1
  /\ IF ~HasWindow(CtxOf(i)) \/ ~IsLoaded(i)
       THEN /\ outcome' = [inst |-> i, op |-> "setState", result |-> "disabled"]
            /\ UNCHANGED <<encrypting, ivs>>
     ELSE LET iv == Len(ivs) + 1
              ttl == EffectiveTTL(options, config[i].defaultTTL)
          IN  /\ encrypting' = [encrypting EXCEPT ![i] =
                    Append(@, encryptState(internalState[i].encryptionKey,
                                           state, ttl, iv, now))]
              /\ ivs' = Append(ivs, [inst |-> i, state |-> state])
              /\ outcome' = [inst |-> i, op |-> "setState", result |-> "encrypting"]
  /\ UNCHANGED <<planted, codec, now, config, internalState, setupPc, listeners, decrypting, handled,
                 localStorage, events, loads>>

\* setState(state, options) up to the await in encryptState
SetState(i, state, options) ==
  /\ Constructed(i)
  /\ calls < MaxCalls
  /\ calls' = calls + 1
  /\ IF ~HasWindow(CtxOf(i))
       THEN /\ outcome' = [inst |-> i, op |-> "setState", result |-> "disabled"]
            /\ UNCHANGED <<encrypting, ivs>>
     ELSE IF ~IsLoaded(i)
       THEN /\ outcome' = [inst |-> i, op |-> "setState", result |-> "not-ready"]
            /\ UNCHANGED <<encrypting, ivs>>
     ELSE LET iv == Len(ivs) + 1
              ttl == EffectiveTTL(options, config[i].defaultTTL)
          IN  /\ encrypting' = [encrypting EXCEPT ![i] =
                    Append(@, encryptState(internalState[i].encryptionKey,
                                           state, ttl, iv, now))]
              /\ ivs' = Append(ivs, [inst |-> i, state |-> state])
              /\ outcome' = [inst |-> i, op |-> "setState", result |-> "encrypting"]
  /\ UNCHANGED <<planted, codec, now, config, internalState, setupPc, listeners, decrypting, handled,
                 localStorage, events, loads>>

\* SetItem that also raises the 'storage' event in the window of the writer
SetItem_LocalEcho(i, k) ==
  /\ k \in 1..Len(encrypting[i])
  /\ ~Settling(CtxOf(i))
  /\ LET key == internalState[i].storageKey
         value == encrypting[i][k]
     IN  /\ localStorage' = [localStorage EXCEPT ![key] = value]
         /\ events' = StorageEvents("nowhere", key, localStorage[key], value)
  /\ encrypting' = [encrypting EXCEPT ![i] = RemoveAt(@, k)]
  /\ UNCHANGED <<planted, codec, now, config, internalState, setupPc, listeners, decrypting, handled,
                 outcome, ivs, loads, calls>>

\* setState resumes after the await: window.localStorage.setItem
SetItem(i, k) ==
  /\ k \in 1..Len(encrypting[i])
  /\ ~Settling(CtxOf(i))
  /\ LET key == internalState[i].storageKey
         value == encrypting[i][k]
     IN  /\ localStorage' = [localStorage EXCEPT ![key] = value]
         /\ events' = StorageEvents(CtxOf(i), key, localStorage[key], value)
  /\ encrypting' = [encrypting EXCEPT ![i] = RemoveAt(@, k)]
  /\ UNCHANGED <<planted, codec, now, config, internalState, setupPc, listeners, decrypting, handled,
                 outcome, ivs, loads, calls>>

\* window.localStorage.removeItem(storageKey) made by instance i
RemoveItem(i) ==
  LET key == internalState[i].storageKey
  IN  /\ localStorage' = [localStorage EXCEPT ![key] = NoValue]
      /\ events' = StorageEvents(CtxOf(i), key, localStorage[key], NoValue)

\* ClearState that also drops the derived key and goes back to idle
ClearState_BackToIdle(i) ==
  /\ Constructed(i)
  /\ calls < MaxCalls
  /\ calls' = calls + 1
  /\ IF ~HasWindow(CtxOf(i))
       THEN /\ outcome' = [inst |-> i, op |-> "clearState", result |-> "disabled"]
            /\ UNCHANGED <<localStorage, events, internalState>>
     ELSE IF ~IsLoaded(i)
       THEN /\ outcome' = [inst |-> i, op |-> "clearState", result |-> "not-ready"]
            /\ UNCHANGED <<localStorage, events, internalState>>
     ELSE /\ outcome' = [inst |-> i, op |-> "clearState", result |-> "removed"]
          /\ RemoveItem(i)
          /\ internalState' = [internalState EXCEPT ![i] = Idle]
  /\ UNCHANGED <<planted, codec, now, config, setupPc, listeners, encrypting, decrypting,
                 handled, ivs, loads>>

\* ClearState that throws when there is no record to remove
ClearState_ThrowsWhenEmpty(i) ==
  /\ Constructed(i)
  /\ calls < MaxCalls
  /\ calls' = calls + 1
  /\ IF ~HasWindow(CtxOf(i))
       THEN /\ outcome' = [inst |-> i, op |-> "clearState", result |-> "disabled"]
            /\ UNCHANGED <<localStorage, events>>
     ELSE IF ~IsLoaded(i)
       THEN /\ outcome' = [inst |-> i, op |-> "clearState", result |-> "not-ready"]
            /\ UNCHANGED <<localStorage, events>>
     ELSE IF localStorage[internalState[i].storageKey] = NoValue
       THEN /\ outcome' = [inst |-> i, op |-> "clearState", result |-> "threw"]
            /\ UNCHANGED <<localStorage, events>>
     ELSE /\ outcome' = [inst |-> i, op |-> "clearState", result |-> "removed"]
          /\ RemoveItem(i)
  /\ UNCHANGED <<planted, codec, now, config, internalState, setupPc, listeners, encrypting,
                 decrypting, handled, ivs, loads>>

\* clearState()
ClearState(i) ==
  /\ Constructed(i)
  /\ calls < MaxCalls
  /\ calls' = calls + 1
  /\ IF ~HasWindow(CtxOf(i))
       THEN /\ outcome' = [inst |-> i, op |-> "clearState", result |-> "disabled"]
            /\ UNCHANGED <<localStorage, events>>
     ELSE IF ~IsLoaded(i)
       THEN /\ outcome' = [inst |-> i, op |-> "clearState", result |-> "not-ready"]
            /\ UNCHANGED <<localStorage, events>>
     ELSE /\ outcome' = [inst |-> i, op |-> "clearState", result |-> "removed"]
          /\ RemoveItem(i)
  /\ UNCHANGED <<planted, codec, now, config, internalState, setupPc, listeners, encrypting, decrypting,
                 handled, ivs, loads>>

\* Accepts without the comparison of event.key with the storage identifier
Accepts_AnyKey(i, e) ==
  /\ IsLoaded(i)
  /\ e.newValue # NoValue

\* Accepts with the test of event.newValue inverted
Accepts_Removals(i, e) ==
  /\ IsLoaded(i)
  /\ e.key = internalState[i].storageKey
  /\ e.newValue = NoValue

\* handleStorageEvent up to its await: does instance i start to decrypt event e
Accepts(i, e) ==
  /\ IsLoaded(i)
  /\ e.key = internalState[i].storageKey
  /\ e.newValue # NoValue

\* the window of context c dispatches its next 'storage' event to every listener
DispatchStorageEvent(c) ==
  /\ events[c] # <<>>
  /\ ~Settling(c)
  /\ LET e == Head(events[c])
         hears(i) == i \in listeners /\ CtxOf(i) = c
     IN  /\ decrypting' = [i \in Instances |->
              IF hears(i) /\ Accepts(i, e)
                THEN Append(decrypting[i], [value |-> e.newValue, via |-> "event"])
                ELSE decrypting[i]]
         /\ handled' = [i \in Instances |->
              IF hears(i) /\ ~Accepts(i, e)
                THEN Append(handled[i], [result |-> "ignored", state |-> "none",
                                         value |-> e.newValue, via |-> "event"])
                ELSE handled[i]]
  /\ events' = [events EXCEPT ![c] = Tail(@)]
  /\ UNCHANGED <<planted, codec, now, config, internalState, setupPc, listeners, encrypting,
                 localStorage, outcome, ivs, loads, calls>>

\* DecryptDone that leaves an expired record in the storage
DecryptDone_KeepsExpired(i, k) ==
  /\ k \in 1..Len(decrypting[i])
  /\ ~Settling(CtxOf(i))
  /\ \E task \in {decrypting[i][k]} :
     \E res \in {decryptState(internalState[i].encryptionKey, task.value, now)} :
         handled' = [handled EXCEPT ![i] =
              Append(@, [result |-> res.kind,
                         state |-> IF res.kind = "state" THEN res.state ELSE "none",
                         value |-> task.value, via |-> task.via])]
  /\ decrypting' = [decrypting EXCEPT ![i] = RemoveAt(@, k)]
  /\ UNCHANGED <<planted, codec, now, config, internalState, setupPc, listeners, encrypting,
                 outcome, ivs, loads, calls, localStorage, events>>

\* decryptState resumes after the await, in loadFromLocalStorage or in
\* handleStorageEvent: expiration check, parser, callback; errors are caught
DecryptDone(i, k) ==
  /\ k \in 1..Len(decrypting[i])
  /\ ~Settling(CtxOf(i))
  /\ \E task \in {decrypting[i][k]} :
     \E res \in {decryptState(internalState[i].encryptionKey, task.value, now)} :
         /\ IF res.kind = "expired"
              THEN RemoveItem(i)
              ELSE UNCHANGED <<localStorage, events>>
         /\ handled' = [handled EXCEPT ![i] =
              Append(@, [result |-> res.kind,
                         state |-> IF res.kind = "state" THEN res.state ELSE "none",
                         value |-> task.value, via |-> task.via])]
  /\ decrypting' = [decrypting EXCEPT ![i] = RemoveAt(@, k)]
  /\ UNCHANGED <<planted, codec, now, config, internalState, setupPc, listeners, encrypting, outcome,
                 ivs, loads, calls>>

\* another script of the origin, in a window of its own, stores a value
ForeignWrite(key, value) ==
  /\ calls < MaxCalls
  /\ calls' = calls + 1
  /\ localStorage' = [localStorage EXCEPT ![key] = value]
  /\ events' = StorageEvents("foreign", key, localStorage[key], value)
  /\ UNCHANGED <<planted, codec, now, config, internalState, setupPc, listeners, encrypting, decrypting,
                 handled, outcome, ivs, loads>>

\* time passes
Tick ==
  /\ now < MaxTime
  /\ now' = now + 1
  /\ UNCHANGED <<planted, codec, config, internalState, setupPc, listeners, encrypting, decrypting,
                 handled, localStorage, events, outcome, ivs, loads, calls>>

\* The inputs of the calls.  An instance that never leaves idle never reads
\* its namespace and its defaultTTL: it is constructed with the defaults.  The
\* states "a" and "b" are interchangeable: "a" is the one written first.  The
\* tests (~Constructed, calls < MaxCalls) that the actions make themselves
\* come first so as to spare the enumeration of the inputs.
StaysIdle(c, key) == ~HasWindow(c) \/ ~HasCrypto(c) \/ key.len # KeyBytes
DefaultConfig == [namespace |-> DefaultNamespace, defaultTTL |-> DefaultTTL]
WrittenBefore(state) == \E n \in 1..Len(ivs) : ivs[n].state = state

Next ==
  \/ \E i \in Instances : ~Constructed(i) /\
       \E c \in Contexts, key \in EncryptionKeys, cfg \in Configs :
         /\ StaysIdle(c, key) => cfg = DefaultConfig
         /\ New(i, c, key, cfg)
  \/ \E i \in Instances : SetupStep(i)
  \/ \E i \in Instances : InitialLoad(i)
  \/ \E i \in Instances : (Constructed(i) /\ calls < MaxCalls) /\
       \E state \in States, options \in SetStateOptions :
         /\ state = "b" => WrittenBefore("a")
         /\ SetState(i, state, options)
  \/ \E i \in Instances, k \in 1..MaxCalls : SetItem(i, k)
  \/ \E i \in Instances : ClearState(i)
  \/ \E c \in Contexts : DispatchStorageEvent(c)
  \/ \E i \in Instances, k \in 1..(MaxCalls + 1) : DecryptDone(i, k)
  \/ \E key \in ForeignKeys, value \in ForeignValues : ForeignWrite(key, value)
  \/ Tick

Spec == Init /\ [][Next]_vars

\* The same steps for tabs that share key and namespace and are alone in
\* writing to the storage, with what the event loop guarantees: a queued
\* 'storage' event is dispatched, and a pending setup, encryption or
\* decryption completes.
LiveNext ==
  \/ \E i \in Instances, c \in {"tabA", "tabB"}, cfg \in Configs :
       /\ cfg.namespace = DefaultNamespace /\ cfg.defaultTTL = DefaultTTL
       /\ New(i, c, [secret |-> "k1", len |-> KeyBytes], cfg)
  \/ \E i \in Instances : SetupStep(i)
  \/ \E i \in Instances : InitialLoad(i)
  \/ \E i \in Instances, state \in {"a", Undefined}, options \in {NoOptions, WithTTL(1)} :
       SetState(i, state, options)
  \/ \E i \in Instances, k \in 1..MaxCalls : SetItem(i, k)
  \/ \E i \in Instances : ClearState(i)
  \/ \E c \in Contexts : DispatchStorageEvent(c)
  \/ \E i \in Instances, k \in 1..(MaxCalls + 1) : DecryptDone(i, k)
  \/ Tick

Fairness ==
  /\ \A c \in Contexts : WF_vars(DispatchStorageEvent(c))
  /\ \A i \in Instances : WF_vars(DecryptDone(i, 1))
  /\ \A i \in Instances : WF_vars(SetItem(i, 1))
  /\ \A i \in Instances : WF_vars(SetupStep(i))
  /\ \A i \in Instances : WF_vars(InitialLoad(i))

LiveSpec == Init /\ [][LiveNext]_vars /\ Fairness

\* ------------------------------------------------- an on-origin attacker
\* Another script of the origin reads the storage and writes to it, without
\* the encryption key.
\* a ciphertext with bits flipped: no key has produced it
NobodysKey == DeriveKeyBuffer([secret |-> "nobody"], "nobody")
Corrupt(ciphertext) == [ciphertext EXCEPT !.key = NobodysKey]
\* expiration times the attacker may write: past, present and beyond the clock
ForgedTimes == 0..(MaxTime + 1)

\* the text of the expiration field for the time t
TimeText(t) == base64UrlEncode(toFixed(t))
ForgedTexts == {TimeText(t) : t \in ForgedTimes}
\* texts of whitespace only, which decode to zero bytes
Blank == <<" ">>
BlankLine == <<"\n">>
\* a text of a length atob refuses
Undecodable == <<"A">>
\* the text of three zero bytes
Extra == <<"A", "A", "A", "A">>

\* changes of the bytes a field decodes to
BytesKinds == {"iv", "ciphertext", "expiration", "strip", "add"}
\* changes of the text that leave the decoded bytes as they were: a field
\* spelled with whitespace, a third field of no bytes added to a record
\* without expiration, a field appended after the third
TextKinds == {"respell", "addEmpty", "append"}
TamperKinds == BytesKinds \cup TextKinds

\* what the attacker makes of a record, by the field changed
FieldChanges(value) ==
  [iv |-> {[value EXCEPT ![1] = EncodedField(iv)] :
             iv \in (0..MaxCalls) \ {DecodedField(value[1])}},
   ciphertext |->
     {[value EXCEPT ![2] = EncodedField(Corrupt(DecodedField(value[2])))],
      [value EXCEPT ![2] = ForeignRecord[2]]},
   expiration |->
     IF HasExpiration(value)
       THEN {[value EXCEPT ![3] = text] :
               text \in (ForgedTexts \cup {Blank, Undecodable}) \ {value[3]}}
       ELSE {},
   strip |-> IF HasExpiration(value)
               THEN {<<value[1], value[2]>>, <<value[1], value[2], EmptyText>>}
               ELSE {},
   add |-> IF HasExpiration(value) THEN {}
           ELSE {<<value[1], value[2], text>> : text \in ForgedTexts \cup {Undecodable}},
   respell |-> {[value EXCEPT ![n] = Respelled(value[n])] : n \in 1..Len(value)},
   addEmpty |-> IF HasExpiration(value) THEN {}
                ELSE {<<value[1], value[2], text>> : text \in {EmptyText, Blank, BlankLine}},
   append |-> IF HasExpiration(value)
                THEN {<<value[1], value[2], value[3], Extra>>}
                ELSE {<<value[1], value[2], EmptyText, Extra>>}]
Tamperings(value) ==
  IF WellFormed(value) THEN FieldChanges(value) ELSE [how \in TamperKinds |-> {}]

\* a record written by setState, as it is found in the storage
Genuine(key, value) ==
  /\ value # NoValue
  /\ \A p \in planted : ~(p.key = key /\ p.value = value)

\* the attacker replaces the record stored under `key` by a tampered one
Tamper(key, how, forged) ==
  /\ calls < MaxCalls
  /\ calls' = calls + 1
  /\ Genuine(key, localStorage[key])
  /\ forged \in Tamperings(localStorage[key])[how]
  /\ localStorage' = [localStorage EXCEPT ![key] = forged]
  /\ events' = StorageEvents("attacker", key, localStorage[key], forged)
  /\ planted' = planted \cup {[key |-> key, value |-> forged, how |-> how,
                               original |-> localStorage[key]]}
  /\ UNCHANGED <<codec, now, config, internalState, setupPc, listeners, encrypting,
                 decrypting, handled, outcome, ivs, loads>>

\* the attacker copies the record stored under `from` to the identifier `to`
Copy(from, to) ==
  /\ calls < MaxCalls
  /\ calls' = calls + 1
  /\ from # to
  /\ Genuine(from, localStorage[from])
  /\ localStorage' = [localStorage EXCEPT ![to] = localStorage[from]]
  /\ events' = StorageEvents("attacker", to, localStorage[to], localStorage[from])
  /\ planted' = planted \cup {[key |-> to, value |-> localStorage[from], how |-> "copy",
                               original |-> localStorage[from]]}
  /\ UNCHANGED <<codec, now, config, internalState, setupPc, listeners, encrypting,
                 decrypting, handled, outcome, ivs, loads>>

\* tabs that share the secret, under the same or different namespaces, and
\* the attacker
AttackNext ==
  \/ \E i \in Instances, c \in {"tabA", "tabB"}, cfg \in Configs :
       New(i, c, [secret |-> "k1", len |-> KeyBytes], cfg)
  \/ \E i \in Instances : SetupStep(i)
  \/ \E i \in Instances : InitialLoad(i)
  \/ \E i \in Instances, options \in {NoOptions, WithTTL(1)} : SetState(i, "a", options)
  \/ \E i \in Instances, k \in 1..MaxCalls : SetItem(i, k)
  \/ \E c \in Contexts : DispatchStorageEvent(c)
  \/ \E i \in Instances, k \in 1..(MaxCalls + 1) : DecryptDone(i, k)
  \/ \E key \in StorageKeys, how \in TamperKinds :
       \E forged \in Tamperings(localStorage[key])[how] : Tamper(key, how, forged)
  \/ \E from, to \in StorageKeys : Copy(from, to)
  \/ Tick

AttackSpec == Init /\ [][AttackNext]_vars

\* ------------------------------------------------------ the codec alone
\* bytes that encode to '+' and '/' in base64 (0xfb 0xef 0xbe is "++++",
\* 0xff 0xff 0xff is "////"), and others
ByteValues == {0, 190, 239, 251, 254, 255}
ByteStrings == UNION {[1..n -> ByteValues] : n \in 0..MaxLen}

CodecInit == NoInstances /\ codec \in {[phase |-> "input", bytes |-> b] : b \in ByteStrings}

\* base64UrlEncode(buffer)
Encode ==
  /\ codec.phase = "input"
  /\ codec' = [phase |-> "encoded", bytes |-> codec.bytes,
                text |-> base64UrlEncode(codec.bytes)]
  /\ UNCHANGED <<now, config, internalState, setupPc, listeners, encrypting, decrypting,
                 handled, localStorage, events, outcome, ivs, loads, calls, planted>>

\* base64UrlDecode(base64UrlEncode(buffer))
Decode ==
  /\ codec.phase = "encoded"
  /\ codec' = [phase |-> "decoded", bytes |-> codec.bytes, text |-> codec.text,
                decoded |-> base64UrlDecode(codec.text)]
  /\ UNCHANGED <<now, config, internalState, setupPc, listeners, encrypting, decrypting,
                 handled, localStorage, events, outcome, ivs, loads, calls, planted>>

\* base64UrlEncode(base64UrlDecode(text))
Reencode ==
  /\ codec.phase = "decoded"
  /\ codec' = [phase |-> "reencoded", bytes |-> codec.bytes, text |-> codec.text,
                decoded |-> codec.decoded, again |-> base64UrlEncode(codec.decoded)]
  /\ UNCHANGED <<now, config, internalState, setupPc, listeners, encrypting, decrypting,
                 handled, localStorage, events, outcome, ivs, loads, calls, planted>>

CodecNext == Encode \/ Decode \/ Reencode

CodecSpec == CodecInit /\ [][CodecNext]_vars

\* ------------------------------------------------------------ properties
Capable(c) == HasWindow(c) /\ HasCrypto(c)
BadKey(i) == config[i].key.len # KeyBytes
CalledBy(i) == outcome.inst = i
\* a step that is a setState or clearState call of instance i
CallOf(i) ==
  \/ \E state \in States, options \in SetStateOptions : SetState(i, state, options)
  \/ ClearState(i)

\* C1: in a context with window and crypto, a setState or clearState call made
\* while the instance is idle throws the not-ready error and changes neither
\* the storage nor anything queued for it.
C1_IdleCallThrows ==
  [][\A i \in Instances :
       (Constructed(i) /\ Capable(CtxOf(i)) /\ ~IsLoaded(i) /\ CallOf(i))
         => /\ outcome'.result = "not-ready"
            /\ localStorage' = localStorage
            /\ encrypting' = encrypting
            /\ events' = events]_vars

C1_Witness ==
  \E i \in Instances :
    /\ CalledBy(i) /\ Capable(CtxOf(i)) /\ ~IsLoaded(i)
    /\ outcome.result = "not-ready"
    /\ SetupRunning(i)

\* C2: the lifecycle state only ever changes from idle to loaded; a loaded
\* instance keeps its state, storage identifier and derived key for ever.
C2_LifecycleOneWay ==
  [][\A i \in Instances :
       /\ IsLoaded(i) => internalState'[i] = internalState[i]
       /\ internalState'[i] # internalState[i]
            => ~IsLoaded(i) /\ internalState'[i].state = "loaded"]_vars

C2_Witness ==
  \E i \in Instances :
    /\ IsLoaded(i)
    /\ CalledBy(i) /\ outcome.result = "removed"
    /\ calls = MaxCalls

\* C3 as stated: whatever the environment, a key that does not decode to 32
\* bytes makes setup throw, and every later call fails explicitly.
C3_Original ==
  \A i \in Instances :
    (Constructed(i) /\ BadKey(i))
      => /\ setupPc[i] = "threw"
         /\ CalledBy(i) => outcome.result = "not-ready"

\* C3 amended: in a context with window and crypto, a key that does not decode
\* to 32 bytes makes setup throw before it hashes anything; the instance stays
\* idle, never listens, never loads, never calls back, and its setState and
\* clearState throw the not-ready error.
C3_BadKeyStaysIdle ==
  \A i \in Instances :
    (Constructed(i) /\ BadKey(i) /\ Capable(CtxOf(i)))
      => /\ setupPc[i] = "threw"
         /\ ~IsLoaded(i)
         /\ i \notin listeners
         /\ loads[i] = <<>>
         /\ decrypting[i] = <<>>
         /\ handled[i] = <<>>
         /\ encrypting[i] = <<>>
         /\ CalledBy(i) => outcome.result = "not-ready"

C3_Witness ==
  \E i \in Instances :
    /\ Constructed(i) /\ BadKey(i) /\ Capable(CtxOf(i))
    /\ CalledBy(i) /\ outcome.result = "not-ready"
    /\ \E c \in Contexts : events[c] # <<>>

\* C4: where window or crypto is missing, setup returns without throwing, the
\* instance stays idle, and setState and clearState report the disabled
\* condition instead of throwing the not-ready error.
C4_DisabledNotAnError ==
  \A i \in Instances :
    (Constructed(i) /\ ~Capable(CtxOf(i)))
      => /\ setupPc[i] = "returned"
         /\ ~IsLoaded(i)
         /\ CalledBy(i) => outcome.result = "disabled"

\* ---- what the reads of an instance tell about the writes
Last(seq) == seq[Len(seq)]
IvOf(value) == DecodedField(value[1])
FromSetState(value) == IvOf(value) \in 1..Len(ivs)
WriterOf(value) == ivs[IvOf(value)].inst
WrittenState(value) == ivs[IvOf(value)].state
Writers == {ivs[n].inst : n \in 1..Len(ivs)}
KeyOf(i) == internalState[i].encryptionKey
StorageKeyOf(i) == internalState[i].storageKey

\* nothing is in flight: no setup, encryption, event or decryption is pending
Quiet ==
  /\ \A i \in Instances : ~SetupRunning(i) /\ encrypting[i] = <<>> /\ decrypting[i] = <<>>
  /\ \A c \in Contexts : events[c] = <<>>

\* C5: when nothing is in flight any more, the state last delivered to a loaded
\* instance of a context that made no write is the state of the unexpired
\* record in storage under its identifier and key.
C5_EventuallyConsistent ==
  Quiet =>
    \A j \in Instances :
      (IsLoaded(j) /\ \A w \in Writers : CtxOf(w) # CtxOf(j))
        => LET stored == decryptState(KeyOf(j), localStorage[StorageKeyOf(j)], now)
           IN  stored.kind = "state"
                 => /\ Delivered(j) # <<>>
                    /\ Last(Delivered(j)).state = stored.state

\* C7: no state delivered to an instance was written by that instance, and a
\* state delivered by a change notification was written in another context.
C7_NoLocalEcho ==
  \A i \in Instances : \A k \in 1..Len(handled[i]) :
    LET h == handled[i][k]
    IN  h.result = "state"
          => /\ FromSetState(h.value)
             /\ WriterOf(h.value) # i
             /\ h.via = "event" => CtxOf(WriterOf(h.value)) # CtxOf(i)

\* a write is stored and was delivered in the other tab by a change
\* notification, and the writer itself has heard of nothing
C7_Witness ==
  \E w \in Instances, j \in Instances :
    /\ w # j /\ IsLoaded(w) /\ IsLoaded(j)
    /\ Quiet
    /\ Len(ivs) = 1 /\ ivs[1].inst = w
    /\ localStorage[StorageKeyOf(w)] # NoValue
    /\ handled[w] = <<>>
    /\ \E k \in 1..Len(handled[j]) :
         /\ handled[j][k].result = "state" /\ handled[j][k].via = "event"
         /\ WriterOf(handled[j][k].value) = w

\* ---- initial load
LoadPending(i) == \E k \in 1..Len(decrypting[i]) : decrypting[i][k].via = "load"
LoadResults(i) == {k \in 1..Len(handled[i]) : handled[i][k].via = "load"}
LoadDelivered(i) == \E k \in LoadResults(i) : handled[i][k].result = "state"
\* a record that opens under the key and has not expired at `time`
Live(key, value, time) == Authentic(key, value) /\ ~Expired(value, time)
Parses(value) == ~ParserThrows(CleartextOf(value))

\* the initial load is queued when the instance becomes loaded, runs once
\* after that and never for an idle instance, and calls back only if it found
\* a record
C8_RunsOnce ==
  \A i \in Instances :
    /\ IsLoaded(i) <=> setupPc[i] \in {"resolved", "loaded"}
    /\ Len(loads[i]) = IF setupPc[i] = "loaded" THEN 1 ELSE 0
    /\ (loads[i] = <<>> \/ loads[i] = <<"none">>) => LoadResults(i) = {}
    /\ Cardinality(LoadResults(i)) <= 1

\* C8 as stated: moreover, if the record found at the moment of the load was
\* written under the same key and was not expired then, the load delivers it.
C8_Original ==
  /\ C8_RunsOnce
  /\ \A i \in Instances :
       (loads[i] # <<>> /\ loads[i][1] \in {"state", "parse-error"} /\ ~LoadPending(i))
         => LoadDelivered(i)

\* what the completion of the initial load's decryption does
C8_LoadStep ==
  \A i \in Instances : \A k \in 1..Len(decrypting[i]) :
    (DecryptDone(i, k) /\ decrypting[i][k].via = "load")
      => LET value == decrypting[i][k].value
         IN  IF Live(KeyOf(i), value, now) /\ Parses(value)
               THEN /\ FromSetState(value)
                    /\ Delivered(i)' = Append(Delivered(i),
                         [result |-> "state", state |-> WrittenState(value),
                          value |-> value, via |-> "load"])
               ELSE Delivered(i)' = Delivered(i)

\* C8 amended: the initial load runs exactly once per instance that reaches
\* loaded, after the idle -> loaded transition and never while idle; it calls back
\* with the state written if the record it found opens under the key, is not
\* expired when its decryption completes and is accepted by the parser, and it
\* does not call back otherwise, in particular when there is no record.
C8_InitialLoad == []C8_RunsOnce /\ [][C8_LoadStep]_vars

\* a record stored before the instance was constructed has been delivered by
\* its initial load
C8_Witness ==
  \E i \in Instances :
    /\ IsLoaded(i) /\ loads[i] = <<"state">>
    /\ ~LoadPending(i) /\ LoadDelivered(i)
    /\ now > 0

\* C9: a change notification for another key, or without a new value, starts
\* no decryption for the instance, calls nothing back, and changes neither the
\* storage nor the state of the instance.
C9_Filtering ==
  [][\A c \in Contexts :
       DispatchStorageEvent(c)
         => \A i \in listeners :
              (CtxOf(i) = c /\ (Head(events[c]).key # StorageKeyOf(i)
                                \/ Head(events[c]).newValue = NoValue))
                => /\ decrypting'[i] = decrypting[i]
                   /\ Delivered(i)' = Delivered(i)
                   /\ localStorage' = localStorage
                   /\ internalState' = internalState]_vars

\* an instance has ignored a notification of a removal and a notification of
\* a write under another key
C9_Witness ==
  \E i \in Instances : \E k1, k2 \in 1..Len(handled[i]) :
    /\ handled[i][k1].result = "ignored" /\ handled[i][k1].value = NoValue
    /\ handled[i][k2].result = "ignored" /\ handled[i][k2].value # NoValue
    /\ Delivered(i) = <<>> /\ decrypting[i] = <<>>

\* ---- read failures
Fails(key, value, time) ==
  \/ ~Authentic(key, value)
  \/ Expired(value, time)
  \/ ~Parses(value)

\* C10: a read (initial load or change notification) of a record that fails
\* authentication, is expired or is refused by the parser calls nothing back
\* and ends there: the instance stays loaded and listening, and its other
\* pending reads stay pending.
C10_ReadFailuresAbsorbed ==
  [][\A i \in Instances : \A k \in 1..Len(decrypting[i]) :
       (DecryptDone(i, k) /\ Fails(KeyOf(i), decrypting[i][k].value, now))
         => /\ Delivered(i)' = Delivered(i)
            /\ internalState' = internalState
            /\ listeners' = listeners
            /\ decrypting'[i] = RemoveAt(decrypting[i], k)
            /\ outcome' = outcome]_vars

\* an instance absorbed a failed read and delivered a later notification
C10_Witness ==
  \E i \in Instances : \E k1, k2 \in 1..Len(handled[i]) :
    /\ k1 < k2
    /\ handled[i][k1].result \in {"decode-error", "auth-error", "expired", "parse-error"}
    /\ handled[i][k2].result = "state" /\ handled[i][k2].via = "event"
    /\ IsLoaded(i) /\ i \in listeners

\* ---- change notifications
\* the record of the n-th setState call
IsWrite(value, n) == value # NoValue /\ IvOf(value) = n
\* instance j has been notified of write n and has not read it yet
Notified(j, n) ==
  /\ j \in listeners
  /\ \/ \E k \in 1..Len(events[CtxOf(j)]) :
          /\ events[CtxOf(j)][k].key = StorageKeyOf(j)
          /\ IsWrite(events[CtxOf(j)][k].newValue, n)
     \/ \E k \in 1..Len(decrypting[j]) :
          decrypting[j][k].via = "event" /\ IsWrite(decrypting[j][k].value, n)
\* instance j has read the notification of write n
ReadByEvent(j, n) ==
  \E k \in 1..Len(handled[j]) :
    /\ handled[j][k].via = "event" /\ handled[j][k].result # "ignored"
    /\ IsWrite(handled[j][k].value, n)
DeliveryOf(value, via) ==
  [result |-> "state", state |-> WrittenState(value), value |-> value, via |-> via]

\* when setState stores its record, the window of every loaded instance of
\* another context with the same storage identifier gets the notification
C6_Notify ==
  \A i \in Instances : \A k \in 1..Len(encrypting[i]) :
    SetItem(i, k)
      => \A j \in Instances :
           (IsLoaded(j) /\ CtxOf(j) # CtxOf(i) /\ StorageKeyOf(j) = StorageKeyOf(i))
             => events'[CtxOf(j)] =
                  Append(events[CtxOf(j)],
                         [key |-> StorageKeyOf(j), newValue |-> encrypting[i][k]])

\* C6 as stated: a notified record that is read before it expires is delivered
\* with the value written, whatever that value is.
C6_Original ==
  [][\A j \in Instances : \A k \in 1..Len(decrypting[j]) :
       (/\ DecryptDone(j, k)
        /\ decrypting[j][k].via = "event"
        /\ Live(KeyOf(j), decrypting[j][k].value, now))
         => Delivered(j)' =
              Append(Delivered(j), DeliveryOf(decrypting[j][k].value, "event"))]_vars

\* the same, for the values that survive stateSerializer and stateParser
C6_ReadStep ==
  \A j \in Instances : \A k \in 1..Len(decrypting[j]) :
    (/\ DecryptDone(j, k)
     /\ decrypting[j][k].via = "event"
     /\ Live(KeyOf(j), decrypting[j][k].value, now)
     /\ Parses(decrypting[j][k].value))
      => Delivered(j)' =
           Append(Delivered(j), DeliveryOf(decrypting[j][k].value, "event"))

\* C6 amended: when a loaded instance completes setState(v), every loaded
\* instance of another context with the same secret and namespace is notified,
\* eventually reads the notification, and is then called back with exactly v,
\* provided the record has not expired when it is read and v is a value that
\* stateSerializer and stateParser carry over (JSON.stringify(undefined) is not).
C6_Delivery ==
  /\ [][C6_Notify]_vars
  /\ [][C6_ReadStep]_vars
  /\ \A j \in Instances : \A n \in 1..MaxCalls : Notified(j, n) ~> ReadByEvent(j, n)

\* a write made with a TTL was delivered by a change notification in the
\* other tab before it expired
C6_Witness ==
  \E j \in Instances : \E k \in 1..Len(handled[j]) :
    /\ handled[j][k].result = "state" /\ handled[j][k].via = "event"
    /\ HasExpiration(handled[j][k].value)
    /\ handled[j][k].state = WrittenState(handled[j][k].value)
    /\ WriterOf(handled[j][k].value) # j

\* ---- codec
Chars(text) == {text[k] : k \in 1..Len(text)}
UrlSafe(ch) == ch \in {"-", "_"} \/ (IsBase64Char(ch) /\ ch \notin {"+", "/"})

\* C17: for every byte string b, base64UrlDecode(base64UrlEncode(b)) is b, the
\* encoded text has no '+', '/' or '=' and only URL-safe characters, and
\* encoding what was decoded from an encoded text gives that text back.
C17_CodecRoundTrip ==
  /\ codec.phase \in {"encoded", "decoded", "reencoded"}
       => /\ Chars(codec.text) \cap {"+", "/", Pad} = {}
          /\ \A ch \in Chars(codec.text) : UrlSafe(ch)
          /\ Len(codec.text) = (Len(codec.bytes) * 4 + 2) \div 3
  /\ codec.phase \in {"decoded", "reencoded"} => codec.decoded = codec.bytes
  /\ codec.phase = "reencoded" => codec.again = codec.text

\* a byte string whose text has both substituted characters and lost its
\* padding went through the round trip
C17_Witness ==
  /\ codec.phase = "reencoded"
  /\ {"-", "_"} \subseteq Chars(codec.text)
  /\ Len(codec.bytes) % 3 # 0
  /\ codec.decoded = codec.bytes /\ codec.again = codec.text

\* ---- expiration and TTL
\* a step that is a setState call of a loaded instance i
Writes(i, state, options) ==
  /\ HasWindow(CtxOf(i)) /\ IsLoaded(i)
  /\ SetState(i, state, options)
\* only a setState call of a loaded instance draws an IV
DrawsIV == ivs' # ivs
\* a step that completes the k-th pending read of instance i
Completes(i, k) == DecryptDone(i, k)
\* only the completion of a read makes the pending reads fewer
ReadEnds(i) == Len(decrypting'[i]) < Len(decrypting[i])
\* the record that call is encrypting
NewRecord(i) == Last(encrypting'[i])

\* a record written with a TTL t > 0 at time w carries the expiration w + t
C11_WriteStep ==
  DrawsIV => \A i \in Instances, state \in States, options \in SetStateOptions :
    (Writes(i, state, options) /\ EffectiveTTL(options, config[i].defaultTTL) > 0)
      => /\ HasExpiration(NewRecord(i))
         /\ ExpirationOf(NewRecord(i)) = <<now + EffectiveTTL(options, config[i].defaultTTL)>>

\* a read after the expiration is treated as expired and empties the storage
C11_ExpiredStep ==
  \A i \in Instances : ReadEnds(i) => \A k \in 1..Len(decrypting[i]) :
    LET value == decrypting[i][k].value
    IN  (/\ Completes(i, k)
         /\ Authentic(KeyOf(i), value) /\ HasExpiration(value)
         /\ now > ExpirationOf(value)[1])
          => /\ Delivered(i)' = Delivered(i)
             /\ Last(handled'[i]).result = "expired"
             /\ localStorage'[StorageKeyOf(i)] = NoValue

\* C11 as stated: a read before the expiration delivers the state, whatever
\* the state written is.
C11_Original ==
  [][\A i \in Instances : ReadEnds(i) => \A k \in 1..Len(decrypting[i]) :
       LET value == decrypting[i][k].value
       IN  (/\ Completes(i, k)
            /\ Authentic(KeyOf(i), value) /\ HasExpiration(value)
            /\ now < ExpirationOf(value)[1])
             => Delivered(i)' =
                  Append(Delivered(i), DeliveryOf(value, decrypting[i][k].via))]_vars

\* the same, for the states that stateSerializer and stateParser carry over
C11_LiveStep ==
  \A i \in Instances : ReadEnds(i) => \A k \in 1..Len(decrypting[i]) :
    LET value == decrypting[i][k].value
    IN  (/\ Completes(i, k)
         /\ Authentic(KeyOf(i), value) /\ HasExpiration(value)
         /\ now < ExpirationOf(value)[1]
         /\ Parses(value))
          => /\ Delivered(i)' =
                  Append(Delivered(i), DeliveryOf(value, decrypting[i][k].via))
             /\ localStorage' = localStorage

\* C11 amended: a record written with TTL t > 0 at time w has the expiration
\* w + t; a read (initial load or change notification) completed before the
\* expiration delivers the state written, provided the parser accepts what the
\* serializer made of it, and a read completed after the expiration delivers
\* nothing, is treated as expired and leaves no record at the storage
\* identifier.
C11_Expiration == [][C11_WriteStep /\ C11_LiveStep /\ C11_ExpiredStep]_vars

\* one instance has read a record with a TTL before its expiration, and read
\* it again after: the first read was delivered, the second emptied the storage
C11_Witness ==
  \E i \in Instances : \E k1, k2 \in 1..Len(handled[i]) :
    /\ k1 < k2
    /\ handled[i][k1].result = "state" /\ HasExpiration(handled[i][k1].value)
    /\ handled[i][k2].result = "expired"
    /\ handled[i][k2].value = handled[i][k1].value
    /\ localStorage[StorageKeyOf(i)] = NoValue

\* a record written with a TTL that is absent, 0 or negative has two fields
\* and no additional data
C12_WriteStep ==
  DrawsIV => \A i \in Instances, state \in States, options \in SetStateOptions :
    (Writes(i, state, options) /\ EffectiveTTL(options, config[i].defaultTTL) <= 0)
      => /\ Len(NewRecord(i)) = 2
         /\ DecodedField(NewRecord(i)[2]).ad = NoAD

\* reading a record of two fields is never treated as expired and changes
\* nothing in the storage, whatever the time is
C12_ReadStep ==
  \A i \in Instances : ReadEnds(i) => \A k \in 1..Len(decrypting[i]) :
    (Completes(i, k) /\ Len(decrypting[i][k].value) = 2)
      => /\ Last(handled'[i]).result # "expired"
         /\ localStorage' = localStorage
         /\ events' = events

\* C12: a record written with an effective TTL that is absent, 0 or negative
\* has exactly two fields and no additional data, and never expires: at any
\* time a read of it is not treated as expired and removes nothing.
C12_NeverExpires ==
  /\ [][C12_WriteStep /\ C12_ReadStep]_vars
  /\ [](\A i \in Instances : \A k \in 1..Len(handled[i]) :
         handled[i][k].result = "expired" => Len(handled[i][k].value) >= 3)

\* an instance whose default TTL is positive wrote a record without
\* expiration; at the end of time it has been delivered and is still stored
C12_Witness ==
  \E j \in Instances : \E k \in 1..Len(handled[j]) :
    LET value == handled[j][k].value
    IN  /\ handled[j][k].result = "state" /\ Len(value) = 2
        /\ config[WriterOf(value)].defaultTTL > 0
        /\ now = MaxTime
        /\ localStorage[StorageKeyOf(j)] = value
        /\ Quiet

\* the TTL a setState call is to apply, told from its arguments
ExpectedTTL(i, options) ==
  IF options.given = "ttl" THEN options.ttl ELSE config[i].defaultTTL

\* C13: setState applies the per-call ttl when one is given (a ttl of 0
\* disables the expiration even if defaultTTL > 0) and the configured
\* defaultTTL when no options or options without ttl are passed; the call
\* leaves the configuration, and so the TTL of later writes, as it was.
C13_EffectiveTTL ==
  [][DrawsIV => \A i \in Instances, state \in States, options \in SetStateOptions :
       Writes(i, state, options)
         => /\ ExpectedTTL(i, options) > 0
                 => /\ HasExpiration(NewRecord(i))
                    /\ ExpirationOf(NewRecord(i)) = <<now + ExpectedTTL(i, options)>>
            /\ ExpectedTTL(i, options) <= 0 => ~HasExpiration(NewRecord(i))
            /\ config' = config]_vars

\* an instance with a positive default TTL wrote without expiration (a
\* per-call ttl) and then, in a later call, with the default again
C13_Witness ==
  \E i \in Instances :
    /\ IsLoaded(i)
    /\ config[i].defaultTTL > 0
    /\ Len(encrypting[i]) = 2
    /\ ~HasExpiration(encrypting[i][1])
    /\ HasExpiration(encrypting[i][2])
    /\ ExpirationOf(encrypting[i][2]) = <<now + config[i].defaultTTL>>

\* ---- clearState
\* C16: on a loaded instance clearState does not throw, leaves no record at
\* the storage identifier and touches nothing else; called when there is no
\* record (a second call in a row, or nothing ever stored) it changes nothing.
C16_IdempotentClear ==
  [][\A i \in Instances :
       (ClearState(i) /\ HasWindow(CtxOf(i)) /\ IsLoaded(i))
         => /\ outcome'.result = "removed"
            /\ localStorage' = [localStorage EXCEPT ![StorageKeyOf(i)] = NoValue]
            /\ internalState' = internalState
            /\ localStorage[StorageKeyOf(i)] = NoValue
                 => localStorage' = localStorage /\ events' = events]_vars

\* every call made was a clearState of the one loaded instance, under whose
\* storage identifier nothing was ever stored
C16_Witness ==
  \E i \in Instances :
    /\ IsLoaded(i) /\ \A j \in Instances : j # i => ~Constructed(j)
    /\ CalledBy(i) /\ outcome.op = "clearState" /\ outcome.result = "removed"
    /\ calls = MaxCalls /\ ivs = <<>>
    /\ \A key \in StorageKeys : localStorage[key] = NoValue
    /\ config[i].namespace # DefaultNamespace

\* ---- concurrent reads and writes
\* a record that opens under the key and is not expired at `time`, other than `value`
NewerLive(i, stored, value, time) ==
  /\ stored # NoValue /\ stored # value
  /\ Authentic(KeyOf(i), stored)
  /\ ~Expired(stored, time)

\* C18: when a read finds the record it decrypted expired, the clean-up does
\* not remove a newer, unexpired record stored in the meantime.
C18_CleanupOnlyStale ==
  [][\A i \in Instances : ReadEnds(i) => \A k \in 1..Len(decrypting[i]) :
       (/\ Completes(i, k)
        /\ Last(handled'[i]).result = "expired"
        /\ NewerLive(i, localStorage[StorageKeyOf(i)], decrypting[i][k].value, now))
         => localStorage'[StorageKeyOf(i)] = localStorage[StorageKeyOf(i)]]_vars

NoCleanup == \A j \in Instances : \A k \in 1..Len(handled[j]) : handled[j][k].result # "expired"

\* C19: once the writes of an instance have all reached the storage, and
\* nobody else wrote or cleaned up, the storage reflects its last call: the
\* record of the last setState, or no record after clearState.
C19_CallOrder ==
  \A i \in Instances :
    (/\ IsLoaded(i) /\ CalledBy(i) /\ encrypting[i] = <<>>
     /\ Writers \subseteq {i}
     /\ localStorage[StorageKeyOf(i)] \notin ForeignValues
     /\ NoCleanup)
      => /\ outcome.result = "removed" => localStorage[StorageKeyOf(i)] = NoValue
         /\ outcome.result = "encrypting" => IsWrite(localStorage[StorageKeyOf(i)], Len(ivs))

\* a pending read that will deliver whenever it completes
SureToDeliver(i, value) == Authentic(KeyOf(i), value) /\ ~HasExpiration(value) /\ Parses(value)

\* C20: a read that delivers has no read of another record, started before it
\* by the same instance, that is still to deliver: the callback follows the
\* order of arrival.
C20_ArrivalOrder ==
  [][\A i \in Instances : ReadEnds(i) => \A k \in 1..Len(decrypting[i]) :
       (Completes(i, k) /\ Last(handled'[i]).result = "state")
         => \A m \in 1..(k - 1) :
              decrypting[i][m].value # decrypting[i][k].value
                => ~SureToDeliver(i, decrypting[i][m].value)]_vars

\* ---- tampering and isolation
PlantedAt(key, hows) == {p.value : p \in {q \in planted : q.key = key /\ q.how \in hows}}
\* the reads of instance i that went as far as the decryption
Reads(i) == {k \in 1..Len(handled[i]) : handled[i][k].result # "ignored"}

Rejected == {"decode-error", "auth-error"}

\* C14 as stated: a record whose IV, ciphertext or expiration field was
\* changed, or whose expiration field was stripped or added, fails when an
\* instance reads it, whatever the change: it is never delivered to the
\* callback.
C14_Original ==
  \A i \in Instances : \A k \in Reads(i) :
    handled[i][k].value \in PlantedAt(StorageKeyOf(i), TamperKinds)
      => handled[i][k].result \in Rejected

\* C14: a record in which the bytes of the IV, of the ciphertext or of the
\* expiration were changed, or whose expiration was stripped or added, fails
\* to decode or to authenticate when an instance reads it: it is never
\* delivered and never treated as expired. A record in which only the text
\* was changed (whitespace in a field, an added third field of no bytes, a
\* field appended after the third) is read, at any time, as the record it was
\* made from. So an expiration is neither extended nor removed unnoticed.
C14_TamperDetected ==
  /\ \A i \in Instances : \A k \in Reads(i) :
       handled[i][k].value \in PlantedAt(StorageKeyOf(i), BytesKinds)
         => handled[i][k].result \in Rejected
  /\ \A p \in planted : \A i \in Instances :
       (p.how \in TextKinds /\ IsLoaded(i))
         => \A time \in 0..(MaxTime + 1) :
              decryptState(KeyOf(i), p.value, time) = decryptState(KeyOf(i), p.original, time)

\* a record whose expiration was pushed beyond the end of the clock was read
\* and rejected, and the callback was not invoked with it
C14_Witness ==
  \E i \in Instances : \E k \in Reads(i) :
    LET value == handled[i][k].value
    IN  /\ value \in PlantedAt(StorageKeyOf(i), {"expiration"})
        /\ ExpirationOf(value) # NaN
        /\ ExpirationOf(value)[1] > MaxTime
        /\ handled[i][k].result = "auth-error"
        /\ \A d \in 1..Len(Delivered(i)) : Delivered(i)[d].value # value

SameSecret(i, j) == config[i].key.secret = config[j].key.secret

\* C15: of two loaded instances with the same secret, those with different
\* namespaces have different storage identifiers and different keys, and none
\* is ever called back with, or decrypts, a record the other wrote, even when
\* that record is copied to its storage identifier; those with the same
\* namespace have the same storage identifier and the same key.
C15_Isolation ==
  \A i, j \in Instances :
    (IsLoaded(i) /\ IsLoaded(j) /\ SameSecret(i, j))
      => IF config[i].namespace = config[j].namespace
           THEN internalState[i] = internalState[j]
           ELSE /\ StorageKeyOf(i) # StorageKeyOf(j)
                /\ KeyOf(i) # KeyOf(j)
                /\ \A k \in Reads(j) :
                     (FromSetState(handled[j][k].value) /\ WriterOf(handled[j][k].value) = i)
                       => handled[j][k].result = "auth-error"

\* a record of one namespace was copied to the storage identifier of the
\* other, whose instance read it and failed to decrypt it
C15_Witness ==
  \E i, j \in Instances : \E k \in Reads(j) :
    LET value == handled[j][k].value
    IN  /\ IsLoaded(i) /\ IsLoaded(j) /\ config[i].namespace # config[j].namespace
        /\ value \in PlantedAt(StorageKeyOf(j), {"copy"})
        /\ WriterOf(value) = i
        /\ handled[j][k].result = "auth-error"
        /\ Delivered(j) = <<>>

====
